---- MODULE Spec2Model ----
(***************************************************************************)
(* A model of prom's query layer (src/prom/query.py): the Query builder,   *)
(* the Iterator returned by Query.get(), the chunking AllIterator returned *)
(* by Query.all(), and the CacheQuery decorator.                           *)
(*                                                                         *)
(* Python objects are modelled by value, except where the code shares an   *)
(* object between two holders: the bounds object of a query is kept in a   *)
(* heap (boundsHeap) and a query holds a reference to it, because          *)
(* Query.__deepcopy__ copies only lists, dicts and tuples by value and     *)
(* hands every other attribute over by reference; the chunk Iterator       *)
(* objects made by Query.get() live in a heap (chunks) as well, because    *)
(* the AllIterator and its generators hold references to them.             *)
(*                                                                         *)
(* The backend interface (prom/interface/base.py), the bounds object and   *)
(* Query.get_bounds are not part of the sources at hand; they are modelled *)
(* from the specification and marked so in MODEL_MAP.json.                 *)
(***************************************************************************)
EXTENDS Integers, Sequences, FiniteSets, TLC

(***************************************************************************)
(* Bounds of the model.                                                    *)
(***************************************************************************)
MaxRows == 5
MaxLimit == 2
MaxOffset == 1
MaxIndex == 6
MaxTraversals == 2
MaxOps == 2
MaxExecs == 2
MaxTicks == 2
MaxSortRows == 3
MaxBatch == 3

VARIABLES
    table,        \* the backend rows matching the query, in backend order
    made,         \* the calls the last operation made to the backend interface
    boundsHeap,   \* the bounds objects, by reference
    query,        \* the caller's Query
    it,           \* the AllIterator made by query.all()
    chunks,       \* the Iterator objects made by Query.get() for the AllIterator
    gen,          \* the generator made by AllIterator.__iter__
    gen2,         \* a second generator of the same AllIterator, made while gen is in use
    item,         \* outcome of the last AllIterator.__getitem__
    ri,           \* the Iterator handed back by query.get(), once made
    out,          \* what the traversal of ri pulled and yielded so far
    clone,        \* the Query made by query.copy(), once made
    target,       \* the query the last builder operation was called on
    ret,          \* what the last operation returned or raised
    nops,         \* number of operations called so far
    cached,       \* the "cached" attribute of a CacheQuery: whether it is there, its dict
    now,          \* the clock (datetime.utcnow), in seconds
    log,          \* the executions of the CacheQuery so far
    last          \* label of the last operation

vars == <<table, made, boundsHeap, query, it, chunks, gen, gen2, item, ri, out, clone,
          target, ret, nops, cached, now, log, last>>

\* the variables of the CacheQuery
cacheVars == <<cached, now, log>>

\* the variables of the builder and of the execution of a query
queryVars == <<clone, target, ret, nops>>

\* the variables of the AllIterator and of the Iterator
iterVars == <<it, chunks, gen, gen2, item, ri, out>>

NoneVal == 0 - 1

Min(a, b) == IF a < b THEN a ELSE b

Max(a, b) == IF a < b THEN b ELSE a

CeilDiv(a, b) == (a + b - 1) \div b

(***************************************************************************)
(* Query: the builder state.                                               *)
(***************************************************************************)
BoundsRefs == {1, 2}

NewBounds == [limit |-> 0, offset |-> 0, page |-> 0]

NewQuery(ref) ==
    [fields_set |-> <<>>, fields_where |-> <<>>, fields_sort |-> <<>>,
     can_get |-> TRUE, default_val |-> "unset", bounds |-> ref]

\* a copy that starts from the constructor's can_get
copy_fresh_can_get(q) ==
    [fields_set |-> q.fields_set, fields_where |-> q.fields_where,
     fields_sort |-> q.fields_sort, can_get |-> TRUE,
     default_val |-> q.default_val, bounds |-> q.bounds]

\* Query.copy / Query.__deepcopy__: list, dict and tuple attributes are copied
\* by value, every other attribute (can_get, default_val, and the bounds
\* object) is handed to the copy as it is, the bounds object by reference.
copy(q) ==
    [fields_set |-> q.fields_set, fields_where |-> q.fields_where,
     fields_sort |-> q.fields_sort, can_get |-> q.can_get,
     default_val |-> q.default_val, bounds |-> q.bounds]

\* set_limit starting the paging over: the page is dropped with the new limit
set_limit_resets_page(h, q, limit) ==
    [h EXCEPT ![q.bounds].limit = limit, ![q.bounds].page = 0]

set_limit(h, q, limit) == [h EXCEPT ![q.bounds].limit = limit]

set_offset(h, q, offset) == [h EXCEPT ![q.bounds].offset = offset]

set_page(h, q, page) == [h EXCEPT ![q.bounds].page = page]

\* (limit, offset, limit_paginate): the offset follows the page when a page is
\* set, and the probe limit is limit + 1 for a bounded query.
get_bounds(h, q) ==
    LET b == h[q.bounds]
    IN  [limit |-> b.limit,
         offset |-> IF b.page # 0 THEN (b.page - 1) * b.limit ELSE b.offset,
         limit_paginate |-> IF b.limit > 0 THEN b.limit + 1 ELSE 0]

(***************************************************************************)
(* The builder operations.  A criterion of fields_where is the list        *)
(* [verb, field name, value, options] of the code: val holds the value of  *)
(* the comparison verbs (NoneVal when none was given), vals the list of    *)
(* in/nin, kwargs the options as a sequence of [k, v] pairs.  An operation *)
(* that can raise returns [q, raised].                                     *)
(***************************************************************************)
set_field(q, field_name, field_val) ==
    [q EXCEPT !.fields_set = Append(@, [name |-> field_name, val |-> field_val])]

select_field(q, field_name) == set_field(q, field_name, NoneVal)

Criterion(verb, field_name, val, vals, kwargs) ==
    [verb |-> verb, name |-> field_name, val |-> val, vals |-> vals, kwargs |-> kwargs]

is_field(q, field_name, fv, kwargs) ==
    [q EXCEPT !.fields_where = Append(@, Criterion("is", field_name, fv, <<>>, kwargs))]

not_field(q, field_name, fv, kwargs) ==
    [q EXCEPT !.fields_where = Append(@, Criterion("not", field_name, fv, <<>>, kwargs))]

lte_field(q, field_name, fv, kwargs) ==
    [q EXCEPT !.fields_where = Append(@, Criterion("lte", field_name, fv, <<>>, kwargs))]

lt_field(q, field_name, fv, kwargs) ==
    [q EXCEPT !.fields_where = Append(@, Criterion("lt", field_name, fv, <<>>, kwargs))]

gte_field(q, field_name, fv, kwargs) ==
    [q EXCEPT !.fields_where = Append(@, Criterion("gte", field_name, fv, <<>>, kwargs))]

gt_field(q, field_name, fv, kwargs) ==
    [q EXCEPT !.fields_where = Append(@, Criterion("gt", field_name, fv, <<>>, kwargs))]

\* utils.make_list on a list: the values in their order, each once
RECURSIVE make_list(_)
make_list(vals) ==
    IF vals = <<>> THEN <<>>
    ELSE LET front == make_list(SubSeq(vals, 1, Len(vals) - 1))
             x == vals[Len(vals)]
         IN  IF \E i \in 1..Len(front) : front[i] = x THEN front ELSE Append(front, x)

\* the loop of in_field/nin_field over the options: an option with an empty
\* list raises
EmptyOption(kwargs) == \E i \in 1..Len(kwargs) : kwargs[i].v = <<>>

normalize_kwargs(kwargs) ==
    [i \in 1..Len(kwargs) |-> [k |-> kwargs[i].k, v |-> make_list(kwargs[i].v)]]

\* in_nin_field without the branch that clears can_get
in_nin_field_keeps_can_get(q, verb, field_name, field_vals, kwargs) ==
    IF kwargs # <<>> /\ EmptyOption(kwargs)
    THEN [q |-> q, raised |-> "ValueError"]
    ELSE [q |-> [q EXCEPT !.fields_where =
                    Append(@, Criterion(verb, field_name, NoneVal, make_list(field_vals),
                                        normalize_kwargs(kwargs)))],
          raised |-> "none"]

\* in_nin_field taking an empty option as it takes an empty list: can_get is
\* cleared and the criterion appended
in_nin_field_empty_option_silent(q, verb, field_name, field_vals, kwargs) ==
    [q |-> [q EXCEPT !.can_get = IF make_list(field_vals) = <<>> \/ EmptyOption(kwargs)
                                 THEN FALSE ELSE @,
                     !.fields_where =
                         Append(@, Criterion(verb, field_name, NoneVal,
                                             make_list(field_vals),
                                             normalize_kwargs(kwargs)))],
     raised |-> "none"]

\* the body shared by in_field and nin_field
in_nin_field(q, verb, field_name, field_vals, kwargs) ==
    LET fv == make_list(field_vals)
    IN  IF kwargs # <<>>
        THEN IF EmptyOption(kwargs)
             THEN [q |-> q, raised |-> "ValueError"]
             ELSE [q |-> [q EXCEPT !.fields_where =
                             Append(@, Criterion(verb, field_name, NoneVal, fv,
                                                 normalize_kwargs(kwargs)))],
                   raised |-> "none"]
        ELSE [q |-> [q EXCEPT !.can_get = IF fv = <<>> THEN FALSE ELSE @,
                              !.fields_where =
                                  Append(@, Criterion(verb, field_name, NoneVal, fv, <<>>))],
              raised |-> "none"]

in_field(q, field_name, field_vals, kwargs) ==
    in_nin_field(q, "in", field_name, field_vals, kwargs)

nin_field(q, field_name, field_vals, kwargs) ==
    in_nin_field(q, "nin", field_name, field_vals, kwargs)

\* sort_field storing the direction as it was given
sort_field_keeps_direction(q, field_name, direction, field_vals) ==
    IF direction = 0
    THEN [q |-> q, raised |-> "ValueError"]
    ELSE [q |-> [q EXCEPT !.fields_sort =
                    Append(@, [direction |-> direction,
                               name |-> field_name, vals |-> field_vals])],
          raised |-> "none"]

sort_field(q, field_name, direction, field_vals) ==
    IF direction = 0
    THEN [q |-> q, raised |-> "ValueError"]
    ELSE [q |-> [q EXCEPT !.fields_sort =
                    Append(@, [direction |-> IF direction > 0 THEN 1 ELSE 0 - 1,
                               name |-> field_name, vals |-> field_vals])],
          raised |-> "none"]

\* Query.asc_field and Query.desc_field
asc_field(q, field_name, field_vals) == sort_field(q, field_name, 1, field_vals).q

desc_field(q, field_name, field_vals) == sort_field(q, field_name, 0 - 1, field_vals).q

\* Query.between_field: lte_field(low), then gte_field(high)
between_field(q, field_name, low, high) ==
    gte_field(lte_field(q, field_name, low, <<>>), field_name, high, <<>>)

(***************************************************************************)
(* Dynamic calls.  A method name is the sequence of the parts its          *)
(* underscores separate: is_foo_bar is <<"is", "foo", "bar">>.             *)
(***************************************************************************)
\* the method name as a string
RECURSIVE join(_)
join(parts) ==
    IF parts = <<>> THEN ""
    ELSE IF Len(parts) = 1 THEN parts[1]
         ELSE parts[1] \o "_" \o join(Tail(parts))

\* schema.field_name: the name the alias stands for; che is an alias of foo
schema_field_name(alias) == IF alias = "che" THEN "foo" ELSE alias

\* split_method splitting at the last underscore
split_method_last(parts) ==
    IF Len(parts) < 2
    THEN [raised |-> "AttributeError", command |-> "", field_name |-> ""]
    ELSE [raised |-> "none",
          command |-> join(SubSeq(parts, 1, Len(parts) - 1)),
          field_name |-> schema_field_name(parts[Len(parts)])]

\* Query._split_method: method_name.split("_", 1), and the field name looked
\* up in the schema
split_method(parts) ==
    IF Len(parts) < 2
    THEN [raised |-> "AttributeError", command |-> "", field_name |-> ""]
    ELSE [raised |-> "none",
          command |-> parts[1],
          field_name |-> schema_field_name(join(Tail(parts)))]

\* the commands for which type(self) has a method <command>_field
FieldMethods ==
    {"select", "set", "is", "not", "between", "lte", "lt", "gte", "gt", "in", "nin",
     "sort", "asc", "desc"}

\* <command>_field(field_name, v), v the one argument of the call (NoneVal:
\* called with no argument)
call_field(q, command, field_name, v) ==
    CASE command = "select" -> [q |-> select_field(q, field_name), raised |-> "none"]
      [] command = "set" -> [q |-> set_field(q, field_name, v), raised |-> "none"]
      [] command = "is" -> [q |-> is_field(q, field_name, v, <<>>), raised |-> "none"]
      [] command = "not" -> [q |-> not_field(q, field_name, v, <<>>), raised |-> "none"]
      [] command = "lte" -> [q |-> lte_field(q, field_name, v, <<>>), raised |-> "none"]
      [] command = "lt" -> [q |-> lt_field(q, field_name, v, <<>>), raised |-> "none"]
      [] command = "gte" -> [q |-> gte_field(q, field_name, v, <<>>), raised |-> "none"]
      [] command = "gt" -> [q |-> gt_field(q, field_name, v, <<>>), raised |-> "none"]
      [] command = "between" ->
            [q |-> between_field(q, field_name, v, v), raised |-> "none"]
      [] command = "in" ->
            in_field(q, field_name, IF v = NoneVal THEN <<>> ELSE <<v>>, <<>>)
      [] command = "nin" ->
            nin_field(q, field_name, IF v = NoneVal THEN <<>> ELSE <<v>>, <<>>)
      [] command = "sort" -> sort_field(q, field_name, v, <<>>)
      [] command = "asc" -> [q |-> asc_field(q, field_name, <<>>), raised |-> "none"]
      [] OTHER -> [q |-> desc_field(q, field_name, <<>>), raised |-> "none"]

\* the callback Query.__getattr__ returns, called with v
callback(q, parts, s, v) ==
    IF s.command \in FieldMethods
    THEN call_field(q, s.command, s.field_name, v) @@ [message |-> ""]
    ELSE [q |-> q, raised |-> "AttributeError", message |-> join(parts)]

\* query.<method_name>(v) for a name the class does not define: __getattr__
\* and the call of what it returned; message is the method the error names
getattr_call(q, parts, v) ==
    IF split_method(parts).raised # "none"
    THEN [q |-> q, raised |-> "AttributeError", message |-> join(parts)]
    ELSE callback(q, parts, split_method(parts), v)

(***************************************************************************)
(* The backend interface: get returns the window of the table the query's  *)
(* bounds select, get_one the row at the query's offset (or none), count   *)
(* the number of rows.                                                     *)
(***************************************************************************)
Window(rows, limit, offset) ==
    IF limit = 0
    THEN SubSeq(rows, offset + 1, Len(rows))
    ELSE SubSeq(rows, offset + 1, Min(offset + limit, Len(rows)))

\* reversed(field_vals)
Reverse(s) == [i \in 1..Len(s) |-> s[Len(s) + 1 - i]]

\* normalize_sort_SQL numbering the list as it stands for DESC too
normalize_sort_SQL_unreversed(field_vals, sort_dir_str) ==
    [i \in 1..Len(field_vals) |-> [when |-> field_vals[i], then |-> i - 1]]

\* Interface._normalize_sort_SQL: the branches WHEN v THEN i of the CASE
\* expression the rows are ordered by, i counted from 0 over the list for
\* ASC and over the reversed list for DESC
normalize_sort_SQL(field_vals, sort_dir_str) ==
    LET fvi == IF sort_dir_str = "ASC" THEN field_vals ELSE Reverse(field_vals)
    IN  [i \in 1..Len(fvi) |-> [when |-> fvi[i], then |-> i - 1]]

\* the value of CASE v WHEN .. THEN .. END: that of the first branch that
\* matches, NULL (NoneVal, which sorts first) when none does
case_value(whens, v) ==
    IF \E i \in DOMAIN whens : whens[i].when = v
    THEN whens[CHOOSE i \in DOMAIN whens :
                   /\ whens[i].when = v
                   /\ \A j \in 1..(i - 1) : whens[j].when # v].then
    ELSE NoneVal

\* the direction of a sort criterion as the backend spells it
sort_dir_str(direction) == IF direction > 0 THEN "ASC" ELSE "DESC"

\* what ORDER BY compares for the row v (a row is its field value) under the
\* sort criterion c: the CASE expression, in ascending order, when the
\* criterion has a list, and the field in the criterion's direction when not
sort_key(c, v) ==
    IF c.vals # <<>>
    THEN case_value(normalize_sort_SQL(c.vals, sort_dir_str(c.direction)), v)
    ELSE c.direction * v

\* row a comes before row b under the sort criteria fs, the first deciding
RECURSIVE row_before(_, _, _)
row_before(fs, a, b) ==
    IF fs = <<>> THEN FALSE
    ELSE IF sort_key(Head(fs), a) # sort_key(Head(fs), b)
         THEN sort_key(Head(fs), a) < sort_key(Head(fs), b)
         ELSE row_before(Tail(fs), a, b)

\* v put into the ordered rows, after the rows it does not come before
insert_row(sorted, v, fs) ==
    LET k == Cardinality({i \in 1..Len(sorted) : ~row_before(fs, v, sorted[i])})
    IN  SubSeq(sorted, 1, k) \o <<v>> \o SubSeq(sorted, k + 1, Len(sorted))

\* ORDER BY: the rows ordered by the sort criteria, rows that compare equal
\* left in table order
RECURSIVE order_by(_, _)
order_by(rows, fs) ==
    IF rows = <<>> \/ fs = <<>> THEN rows
    ELSE insert_row(order_by(SubSeq(rows, 1, Len(rows) - 1), fs), rows[Len(rows)], fs)

interface_get(rows, h, q) ==
    LET b == get_bounds(h, q) IN Window(order_by(rows, q.fields_sort), b.limit, b.offset)

interface_get_one(rows, h, q) ==
    LET b == get_bounds(h, q) IN Window(order_by(rows, q.fields_sort), 1, b.offset)

interface_count(rows, h, q) == Len(rows)

CallRec(op, h, q) ==
    LET b == get_bounds(h, q) IN [op |-> op, limit |-> b.limit, offset |-> b.offset]

\* results.pop(k), k counted from 0
pop(s, k) == SubSeq(s, 1, k) \o SubSeq(s, k + 2, Len(s))

\* ProbeHit taking a full page for the sign of more rows
ProbeHitFullPage(n, limit_paginate) == n >= limit_paginate - 1

\* the comparison that decides has_more in Query.get
ProbeHit(n, limit_paginate) == n = limit_paginate

\* Query._query(method_name): the result, as [rows, num], and the backend
\* calls made; the default value when the query cannot be executed
query_run(rows, h, q, method_name) ==
    IF ~q.can_get
    THEN [rows |-> <<>>, num |-> 0, made |-> <<>>]
    ELSE [rows |-> CASE method_name = "get" -> interface_get(rows, h, q)
                     [] method_name = "get_one" -> interface_get_one(rows, h, q)
                     [] OTHER -> <<>>,
          num |-> CASE method_name = "count" -> interface_count(rows, h, q)
                    [] method_name = "delete" -> Len(rows)
                    [] OTHER -> 0,
          made |-> <<CallRec(method_name, h, q)>>]

\* Query.get(limit) up to the call of _query: the limit argument is set, the
\* bounds are read and the limit is raised to the probe limit
get_probe(h, q, limit) ==
    LET h1 == IF limit # NoneVal THEN set_limit(h, q, limit) ELSE h
        b  == get_bounds(h1, q)
    IN  [heap |-> IF b.limit_paginate # 0 THEN set_limit(h1, q, b.limit_paginate) ELSE h1,
         bounds |-> b]

\* Query.get(limit) after the call of _query: the limit is put back, and a
\* result of probe length sets has_more and loses the probe row
get_finish(h, q, b, results) ==
    LET has_more == b.limit_paginate # 0 /\ ProbeHit(Len(results), b.limit_paginate)
    IN  [heap |-> IF b.limit_paginate # 0 THEN set_limit(h, q, b.limit) ELSE h,
         results |-> IF has_more THEN pop(results, b.limit) ELSE results,
         has_more |-> has_more]

\* Query.get(limit): the heap after the call, the rows and has_more of the
\* Iterator returned, and the backend calls made.
get_return(q, p, r) ==
    get_finish(p.heap, q, p.bounds, r.rows) @@ [made |-> r.made, default_val |-> "list"]

get_query(rows, q, p) == get_return(q, p, query_run(rows, p.heap, q, "get"))

get(rows, h, q, limit) == get_query(rows, q, get_probe(h, q, limit))

\* Query.get_one(): the row as a sequence of length 0 (None) or 1
get_one(rows, h, q) ==
    LET r == query_run(rows, h, q, "get_one")
    IN  [results |-> r.rows, made |-> r.made, default_val |-> "None"]

\* Query.count(): the sort criteria are taken out for the call and put back
count(rows, h, q) ==
    LET r == query_run(rows, h, [q EXCEPT !.fields_sort = <<>>], "count")
    IN  [num |-> r.num, made |-> r.made, default_val |-> "0"]

\* Query.fields: dict(self.fields_set), the last value set for each name
fields(q) ==
    [n \in {q.fields_set[i].name : i \in 1..Len(q.fields_set)} |->
        q.fields_set[CHOOSE i \in 1..Len(q.fields_set) :
                        /\ q.fields_set[i].name = n
                        /\ \A j \in (i + 1)..Len(q.fields_set) :
                               q.fields_set[j].name # n].val]

\* Query.set_fields(fields) for a dict: set_field for every item of it, in
\* the order the dict hands them out
RECURSIVE set_fields(_, _)
set_fields(q, d) ==
    IF DOMAIN d = {} THEN q
    ELSE LET n == CHOOSE x \in DOMAIN d : TRUE
         IN  set_fields(set_field(q, n, d[n]), [x \in DOMAIN d \ {n} |-> d[x]])

\* Query.insert(): the fields are set once more and handed to the interface,
\* whatever can_get says
insert(rows, h, q) ==
    [q |-> [set_fields(q, fields(q)) EXCEPT !.default_val = "0"],
     made |-> <<CallRec("insert", h, q)>>,
     num |-> Len(rows) + 1]

\* Query.update(): as insert, with the query handed over as the criteria
update(rows, h, q) ==
    [q |-> [set_fields(q, fields(q)) EXCEPT !.default_val = "0"],
     made |-> <<CallRec("update", h, q)>>,
     num |-> Len(rows)]

\* Query.delete(): through _query, None when the query cannot be executed
delete(rows, h, q) ==
    LET r == query_run(rows, h, q, "delete")
    IN  [kind |-> IF q.can_get THEN "int" ELSE "None",
         num |-> r.num, made |-> r.made, default_val |-> "None"]

(***************************************************************************)
(* CacheQuery.  cached is the attribute the methods read with              *)
(* getattr(self, "cached", {}): when the instance has it, store is the     *)
(* dict (a function from keys to entries); when it has not, every call     *)
(* works on a new empty dict, which is lost when the call returns.         *)
(***************************************************************************)
cache_ttl == 3600

\* self.cached_ttl: no such attribute is set, so Query.__getattr__ answers
\* with the callback it builds for the method name "cached_ttl"
cached_ttl == "callback"

\* td.total_seconds() < self.cached_ttl as Python 2 orders a number and an
\* object that is not a number: the number is the smaller one
seconds_less(seconds, ttl) == IF ttl = "callback" THEN TRUE ELSE seconds < ttl

\* CacheQuery.cache_key: make_hash over the method name and the criteria, a
\* hash that tells apart what differs
cache_key(q, method_name) ==
    <<method_name, q.fields_set, q.fields_where, q.fields_sort>>

\* CacheQuery.cache_get: (result, cache_hit)
cache_get(c, key, t) ==
    LET store == IF c.present THEN c.store ELSE <<>>
        hit == /\ key \in DOMAIN store
               /\ seconds_less(t - store[key].datetime, cached_ttl)
    IN  [hit |-> hit,
         result |-> IF hit THEN store[key].result ELSE [rows |-> <<>>, num |-> 0]]

\* CacheQuery.cache_set
cache_set(c, key, result, t) ==
    IF c.present
    THEN [c EXCEPT !.store = (key :> [datetime |-> t, result |-> result]) @@ c.store]
    ELSE c

\* CacheQuery._query, once the cache was asked (g) and the query was run
\* (r): the stored result on a hit, the backend's result, stored under the
\* key, on a miss
cache_run_result(c, key, t, g, r) ==
    IF g.hit
    THEN [rows |-> g.result.rows, num |-> g.result.num, made |-> <<>>,
          cache_hit |-> TRUE, key |-> key, cached |-> c]
    ELSE [rows |-> r.rows, num |-> r.num, made |-> r.made,
          cache_hit |-> FALSE, key |-> key,
          cached |-> cache_set(c, key, [rows |-> r.rows, num |-> r.num], t)]

\* CacheQuery._query
cache_run(rows, h, q, method_name, c, t) ==
    cache_run_result(c, cache_key(q, method_name), t,
                     cache_get(c, cache_key(q, method_name), t),
                     query_run(rows, h, q, method_name))

\* the end of Query.get on a CacheQuery: the list of r, with the probe row
\* taken from it (f), is what the cache holds
cache_get_return(r, f) ==
    [heap |-> f.heap, results |-> f.results, has_more |-> f.has_more,
     made |-> r.made, cache_hit |-> r.cache_hit, key |-> r.key,
     cached |-> IF r.cached.present
                THEN [r.cached EXCEPT !.store[r.key].result.rows = f.results]
                ELSE r.cached]

cache_get_finish(q, p, r) ==
    cache_get_return(r, get_finish(p.heap, q, p.bounds, r.rows))

cache_get_query(rows, q, p, c, t) ==
    cache_get_finish(q, p, cache_run(rows, p.heap, q, "get", c, t))

\* Query.get on a CacheQuery: _query is CacheQuery._query, and the list it
\* returned, which on a miss is the list just stored and on a hit the stored
\* one, is the list get takes the probe row from
cache_query_get(rows, h, q, limit, c, t) ==
    cache_get_query(rows, q, get_probe(h, q, limit), c, t)

\* CacheQuery.update and CacheQuery.delete: super(CachedQuery, self) names a
\* class that does not exist (the class is CacheQuery), so the call raises
\* NameError before anything is done
cache_update(c) == [cached |-> c, raised |-> "NameError", made |-> <<>>]

cache_delete(c) == [cached |-> c, raised |-> "NameError", made |-> <<>>]

(***************************************************************************)
(* AllIterator.  The iterator side of the state is handled as one record   *)
(* w = [heap, chunks, made, it], which the operators below take and       *)
(* return.  A chunk is the Iterator Query.get() returned: its rows, its    *)
(* has_more flag and pos, the number of rows its lazy sequence (iresults)  *)
(* has handed out already.                                                 *)
(***************************************************************************)
DefaultChunkLimit == 5000

NoIterator ==
    [made |-> FALSE, chunk_limit |-> 0, offset |-> 0, start_offset |-> 0,
     query |-> NewQuery(1), results |-> 0]

\* the iterator side of the state as an operation finds it
World == [heap |-> boundsHeap, chunks |-> chunks, made |-> <<>>, it |-> it]

\* NextOffset with the chunk after the probe row: one row is skipped per chunk
NextOffsetPastProbe(offset, chunk_limit) == offset + chunk_limit + 1

\* the offset of the chunk after the one at offset
NextOffset(offset, chunk_limit) == offset + chunk_limit

\* AllIterator._set_results
\* self.results = r, the Iterator a Query.get() returned
results_set(w, r) ==
    [heap |-> r.heap,
     chunks |-> Append(w.chunks, [results |-> r.results, has_more |-> r.has_more,
                                  pos |-> 0]),
     made |-> w.made \o r.made,
     it |-> [w.it EXCEPT !.results = Len(w.chunks) + 1,
                         !.query.default_val = r.default_val]]

\* AllIterator._set_results
set_results(rows, w) ==
    results_set(w, get(rows, set_offset(w.heap, w.it.query, w.it.offset),
                       w.it.query, w.it.chunk_limit))

\* AllIterator.__init__, with the first AllIterator.reset (start_offset is not
\* set yet, so it is set and the first chunk is fetched)
AllIterator(rows, w, q) ==
    LET b == get_bounds(w.heap, q)
        limit == IF b.limit = 0 THEN DefaultChunkLimit ELSE b.limit
    IN  set_results(rows,
            [w EXCEPT !.it = [made |-> TRUE, chunk_limit |-> limit,
                              offset |-> b.offset, start_offset |-> b.offset,
                              query |-> copy(q), results |-> 0]])

\* reset starting the loaded chunk over wherever the offset is
reset_without_refetch(rows, w) == [w EXCEPT !.chunks[w.it.results].pos = 0]

\* AllIterator.reset once start_offset is set
reset(rows, w) ==
    IF w.it.offset # w.it.start_offset
    THEN set_results(rows, [w EXCEPT !.it.offset = w.it.start_offset])
    ELSE [w EXCEPT !.chunks[w.it.results].pos = 0]

NoGenerator == [pc |-> "none", has_more |-> FALSE, chunk |-> 0, yielded |-> <<>>, trav |-> 0]

\* AllIterator.__iter__ from the top of "for r in self.results" over the chunk
\* g.chunk to the next yield, or to the end of the generator: when the chunk
\* is used up the offset advances and the next chunk is fetched, and the
\* while loop goes on if the chunk just finished had has_more.
RECURSIVE advance(_, _, _)
RECURSIVE while_top(_, _, _)
RECURSIVE while_test(_, _, _)

\* the top of the while loop: has_more = self.results.has_more, and the for
\* loop starts over the chunk now loaded
while_top(rows, w, g) ==
    advance(rows,
            [w EXCEPT !.chunks[w.it.results].pos = 0],
            [g EXCEPT !.has_more = w.chunks[w.it.results].has_more,
                      !.chunk = w.it.results])

\* "while has_more" after the next chunk was fetched
while_test(rows, w, g) ==
    IF g.has_more
    THEN while_top(rows, w, g)
    ELSE [w |-> w, g |-> [g EXCEPT !.pc = "done"]]

advance(rows, w, g) ==
    LET c == w.chunks[g.chunk]
    IN  IF c.pos < Len(c.results)
        THEN [w |-> [w EXCEPT !.chunks[g.chunk].pos = c.pos + 1],
              g |-> [g EXCEPT !.pc = "yield",
                              !.yielded = Append(@, c.results[c.pos + 1])]]
        ELSE while_test(rows,
                        set_results(rows,
                            [w EXCEPT !.it.offset =
                                NextOffset(w.it.offset, w.it.chunk_limit)]),
                        g)

\* the first next() of the generator: has_more = True, self.reset(), the
\* first pass through the while loop up to the first yield
iter_first(rows, w, g) == while_top(rows, reset(rows, w), g)

\* InWindow with the upper bound taken into the window
InWindowInclusive(k, lower_bound, upper_bound) == k >= lower_bound /\ k <= upper_bound

\* the window test of AllIterator.__getitem__
InWindow(k, lower_bound, upper_bound) == k >= lower_bound /\ k < upper_bound

\* PointOutcome without the raise: a missing row is handed back as None
PointOutcomeSilent(d) == IF Len(d) > 0 THEN "row" ELSE "None"

\* what __getitem__ makes of the point query's answer d (a sequence of length
\* 0 for None, 1 for a row)
PointOutcome(d) == IF Len(d) > 0 THEN "row" ELSE "IndexError"

\* AllIterator.__getitem__
getitem(rows, w, k) ==
    LET lower_bound == w.it.offset
        upper_bound == lower_bound + w.it.chunk_limit
    IN  IF InWindow(k, lower_bound, upper_bound)
        THEN LET c == w.chunks[w.it.results]
                 i == k - lower_bound
                 ok == i < Len(c.results)
             IN  [w |-> w, in_window |-> TRUE,
                  outcome |-> IF ok THEN "row" ELSE "IndexError",
                  value |-> IF ok THEN c.results[i + 1] ELSE NoneVal]
        ELSE LET q  == copy(w.it.query)
                 h1 == set_offset(w.heap, q, k)
                 r  == get_one(rows, h1, q)
             IN  [w |-> [w EXCEPT !.heap = h1, !.made = @ \o r.made],
                  in_window |-> FALSE,
                  outcome |-> PointOutcome(r.results),
                  value |-> IF Len(r.results) > 0 THEN r.results[1] ELSE NoneVal]

NoItem ==
    [k |-> 0, in_window |-> FALSE, outcome |-> "none", value |-> NoneVal,
     pre |-> <<>>]

\* the loaded chunk, the current offset and the start offset of the iterator
IterView(w) ==
    <<w.it.results, w.chunks[w.it.results], w.it.offset, w.it.start_offset>>

(***************************************************************************)
(* Iterator: the results of one Query.get(), with an optional filter and   *)
(* an optional projection to the selected fields.  A row of the table is   *)
(* the value of its field foo; the objects the Iterator hands out are the  *)
(* row itself, one value of it, or the list of several values of it.       *)
(***************************************************************************)
\* Query.fields_select: the names of fields_set, in the order they were set
fields_select(q) == [i \in 1..Len(q.fields_set) |-> q.fields_set[i].name]

\* d.get(field_name, None) on a row
row_get(d, field_name) == IF field_name = "foo" THEN d ELSE NoneVal

\* no ifilter: the attribute is None
NoFilter == [on |-> FALSE, accepts |-> {}]

\* the Iterator attributes before query.get() has made one
NoResultIterator ==
    [made |-> FALSE, results |-> <<>>, has_more |-> FALSE, ifilter |-> NoFilter,
     values |-> FALSE, field_names |-> <<>>, fcount |-> 0, fields_select |-> <<>>,
     pos |-> 0]

\* Iterator.__init__(results, orm, has_more, query): the query is copied and
\* the generator is made by reset(); pos is the number of results the
\* generator has consumed
Iterator(results, has_more, q) ==
    [made |-> TRUE, results |-> results, has_more |-> has_more, ifilter |-> NoFilter,
     values |-> FALSE, field_names |-> <<>>, fcount |-> 0,
     fields_select |-> fields_select(copy(q)), pos |-> 0]

\* Iterator.reset(): a new generator over the results, nothing consumed
iterator_reset(r) == [r EXCEPT !.pos = 0]

\* Iterator.values(): the projection is switched on and the selected fields
\* are recorded before the check that raises ValueError when there are none
iterator_values(r) ==
    [r |-> [r EXCEPT !.values = TRUE, !.field_names = r.fields_select,
                     !.fcount = Len(r.fields_select)],
     raised |-> IF Len(r.fields_select) = 0 THEN "ValueError" ELSE "none"]

\* Iterator._get_result(d): the row, or with values() the list of the values
\* of the selected fields, the bare value when one field is selected;
\* field_vals[0] of an empty list raises IndexError
get_result(r, d) ==
    IF ~r.values THEN [kind |-> "row", vals |-> <<d>>]
    ELSE IF r.fcount > 1
         THEN [kind |-> "list",
               vals |-> [i \in 1..Len(r.field_names) |-> row_get(d, r.field_names[i])]]
         ELSE IF Len(r.field_names) = 0
              THEN [kind |-> "IndexError", vals |-> <<>>]
              ELSE [kind |-> "scalar", vals |-> <<row_get(d, r.field_names[1])>>]

\* ifilter(o) for the predicates of the model: o holds one of the accepted
\* values
ifilter_call(f, o) == \E i \in 1..Len(o.vals) : o.vals[i] \in f.accepts

\* the docstring's reading of the filter: a row is skipped when ifilter(o)
\* is True
filtered_skips_true(r, o) == IF r.ifilter.on THEN ~ifilter_call(r.ifilter, o) ELSE TRUE

\* Iterator._filtered(o): ifilter(o) when there is a filter, True otherwise
filtered(r, o) == IF r.ifilter.on THEN ifilter_call(r.ifilter, o) ELSE TRUE

\* one element the generator took from the results: the row d, the object o
\* made of it, the filter it was tested against and the outcome of the test
Pulled(r, d, o) ==
    [d |-> d, o |-> o, ifilter |-> r.ifilter, passed |-> filtered(r, o)]

NoObject == [kind |-> "none", vals |-> <<>>]

\* Iterator.next(): the generator of reset() takes the results one at a time,
\* makes the object of each with _get_result and tests it with _filtered,
\* until one passes (it is yielded) or the results are used up
\* (StopIteration); an exception of _get_result ends the generator
RECURSIVE iterator_next(_, _)
iterator_next(r, pulled) ==
    IF r.pos >= Len(r.results)
    THEN [r |-> r, pulled |-> pulled, outcome |-> "StopIteration", value |-> NoObject]
    ELSE IF get_result(r, r.results[r.pos + 1]).kind = "IndexError"
         THEN [r |-> [r EXCEPT !.pos = Len(r.results)], pulled |-> pulled,
               outcome |-> "IndexError", value |-> NoObject]
         ELSE IF filtered(r, get_result(r, r.results[r.pos + 1]))
              THEN [r |-> [r EXCEPT !.pos = r.pos + 1],
                    pulled |-> Append(pulled,
                                      Pulled(r, r.results[r.pos + 1],
                                             get_result(r, r.results[r.pos + 1]))),
                    outcome |-> "yield",
                    value |-> get_result(r, r.results[r.pos + 1])]
              ELSE iterator_next([r EXCEPT !.pos = r.pos + 1],
                                 Append(pulled,
                                        Pulled(r, r.results[r.pos + 1],
                                               get_result(r, r.results[r.pos + 1]))))

\* the traversal of the Iterator: the state of the generator, the elements
\* pulled and the objects yielded since the last reset, the resets so far
NoTraversal == [pc |-> "none", pulled |-> <<>>, yielded |-> <<>>, trav |-> 0]

\* Query.value(): ValueError without selected fields; the row of
\* _query('get_one') projected as in _get_result when there is one, None
\* otherwise.  value() sets no default_val: with can_get False _query hands
\* back the default_val an earlier execution left (empty, None or 0, so None
\* is returned), and on a query never executed the attribute is missing and
\* is answered by __getattr__ with a callback, of which d.get is an
\* AttributeError
value(rows, h, q) ==
    IF Len(fields_select(q)) = 0
    THEN [raised |-> "ValueError", kind |-> "none", vals |-> <<>>, made |-> <<>>]
    ELSE IF ~q.can_get
         THEN IF q.default_val = "unset"
              THEN [raised |-> "AttributeError", kind |-> "none", vals |-> <<>>,
                    made |-> <<>>]
              ELSE [raised |-> "none", kind |-> "None", vals |-> <<>>, made |-> <<>>]
         ELSE IF interface_get_one(rows, h, q) = <<>>
              THEN [raised |-> "none", kind |-> "None", vals |-> <<>>,
                    made |-> <<CallRec("get_one", h, q)>>]
              ELSE [raised |-> "none",
                    kind |-> IF Len(fields_select(q)) > 1 THEN "list" ELSE "scalar",
                    vals |-> [i \in 1..Len(fields_select(q)) |->
                                 row_get(interface_get_one(rows, h, q)[1],
                                         fields_select(q)[i])],
                    made |-> <<CallRec("get_one", h, q)>>]

(***************************************************************************)
(* SpecBuilder: a fresh query, its copy, and the builder operations called *)
(* on either of the two.                                                   *)
(***************************************************************************)
FieldNames == {"foo"}

FieldVals == {NoneVal, 1}

InVals == {<<>>, <<1>>, <<1, 1>>}

Options ==
    {<<>>, <<[k |-> "day", v |-> <<>>]>>, <<[k |-> "day", v |-> <<1>>]>>,
     <<[k |-> "day", v |-> <<1>>], [k |-> "month", v |-> <<>>]>>}

Directions == {0 - 2, 0 - 1, 0, 1, 2}

SortVals == {<<>>, <<3, 1, 2>>, <<2, 3>>, <<1, 2, 1>>}

Targets == {"query", "clone"}

\* what an operation returned (kind, rows, has_more, num) or raised, and the
\* arguments args it was called with
NoRet ==
    [raised |-> "none", kind |-> "none", rows |-> <<>>, has_more |-> FALSE, num |-> 0,
     args |-> <<>>, message |-> ""]

NoClone == [made |-> FALSE, q |-> NewQuery(2)]

InitQueryVars ==
    /\ clone = NoClone
    /\ target = "none"
    /\ ret = NoRet
    /\ nops = 0

NoCache == [present |-> FALSE, store |-> <<>>]

InitCacheVars ==
    /\ cached = NoCache
    /\ now = 0
    /\ log = <<>>

InitIterVars ==
    /\ it = NoIterator
    /\ chunks = <<>>
    /\ gen = NoGenerator
    /\ gen2 = NoGenerator
    /\ item = NoItem
    /\ ri = NoResultIterator
    /\ out = NoTraversal

InitBuilder ==
    /\ table = <<>>
    /\ made = <<>>
    /\ boundsHeap = [r \in BoundsRefs |-> NewBounds]
    /\ query = NewQuery(1)
    /\ InitIterVars
    /\ InitQueryVars
    /\ InitCacheVars
    /\ last = "init"

Target(t) == IF t = "query" THEN query ELSE clone.q

\* the operation's query is put back in its place and the operation counted
SetTarget(t, q, raised, label, args) ==
    /\ query' = IF t = "query" THEN q ELSE query
    /\ clone' = IF t = "clone" THEN [clone EXCEPT !.q = q] ELSE clone
    /\ target' = t
    /\ ret' = [NoRet EXCEPT !.raised = raised, !.args = args]
    /\ nops' = nops + 1
    /\ last' = label
    /\ UNCHANGED <<table, made, iterVars, cacheVars>>

CanBuild(t) == nops < MaxOps /\ (t = "clone" => clone.made)

\* clone = query.copy()
Copy ==
    /\ ~clone.made
    /\ clone' = [made |-> TRUE, q |-> copy(query)]
    /\ target' = "none"
    /\ ret' = NoRet
    /\ last' = "copy"
    /\ UNCHANGED <<table, made, boundsHeap, query, iterVars, nops, cacheVars>>

SetField ==
    \E t \in Targets, n \in FieldNames, v \in FieldVals :
        /\ CanBuild(t)
        /\ SetTarget(t, set_field(Target(t), n, v), "none", "set_field", <<n, v>>)
        /\ UNCHANGED boundsHeap

WhereField ==
    \E t \in Targets, verb \in {"is", "not", "lte", "lt", "gte", "gt"},
       n \in FieldNames, v \in FieldVals :
        /\ CanBuild(t)
        /\ SetTarget(t,
                     CASE verb = "is"  -> is_field(Target(t), n, v, <<>>)
                       [] verb = "not" -> not_field(Target(t), n, v, <<>>)
                       [] verb = "lte" -> lte_field(Target(t), n, v, <<>>)
                       [] verb = "lt"  -> lt_field(Target(t), n, v, <<>>)
                       [] verb = "gte" -> gte_field(Target(t), n, v, <<>>)
                       [] OTHER        -> gt_field(Target(t), n, v, <<>>),
                     "none", "where_field", <<verb, n, v>>)
        /\ UNCHANGED boundsHeap

InField ==
    \E t \in Targets, n \in FieldNames, vs \in InVals, kw \in Options :
        /\ CanBuild(t)
        /\ LET r == in_field(Target(t), n, vs, kw)
           IN  SetTarget(t, r.q, r.raised, "in_field", <<n, vs, kw>>)
        /\ UNCHANGED boundsHeap

NinField ==
    \E t \in Targets, n \in FieldNames, vs \in InVals, kw \in Options :
        /\ CanBuild(t)
        /\ LET r == nin_field(Target(t), n, vs, kw)
           IN  SetTarget(t, r.q, r.raised, "nin_field", <<n, vs, kw>>)
        /\ UNCHANGED boundsHeap

SortField ==
    \E t \in Targets, n \in FieldNames, d \in Directions, vs \in SortVals :
        /\ CanBuild(t)
        /\ LET r == sort_field(Target(t), n, d, vs)
           IN  SetTarget(t, r.q, r.raised, "sort_field", <<n, d, vs>>)
        /\ UNCHANGED boundsHeap

SetLimit ==
    \E t \in Targets, n \in 1..MaxLimit :
        /\ CanBuild(t)
        /\ boundsHeap' = set_limit(boundsHeap, Target(t), n)
        /\ SetTarget(t, Target(t), "none", "set_limit", <<n>>)

SetOffset ==
    \E t \in Targets, n \in 1..MaxLimit :
        /\ CanBuild(t)
        /\ boundsHeap' = set_offset(boundsHeap, Target(t), n)
        /\ SetTarget(t, Target(t), "none", "set_offset", <<n>>)

SetPage ==
    \E t \in Targets, n \in 1..MaxLimit :
        /\ CanBuild(t)
        /\ boundsHeap' = set_page(boundsHeap, Target(t), n)
        /\ SetTarget(t, Target(t), "none", "set_page", <<n>>)

NextBuilder ==
    \/ Copy
    \/ SetField
    \/ WhereField
    \/ InField
    \/ NinField
    \/ SortField
    \/ SetLimit
    \/ SetOffset
    \/ SetPage

SpecBuilder == InitBuilder /\ [][NextBuilder]_vars

\* what the claims call the criteria and the bounds of a query
QueryView(h, q) == <<q.fields_set, q.fields_where, q.fields_sort, h[q.bounds]>>

\* C4: once clone = query.copy() is made, a builder operation called on the
\* clone leaves the selected fields, the where-criteria, the sort-criteria
\* and the bounds of the query as they were, and one called on the query
\* leaves those of the clone as they were.
C4_CloneIndependent ==
    [][(clone.made /\ clone'.made) =>
          /\ target' = "clone" =>
                QueryView(boundsHeap', query') = QueryView(boundsHeap, query)
          /\ target' = "query" =>
                QueryView(boundsHeap', clone'.q) = QueryView(boundsHeap, clone.q)]_vars

\* the bounds object of the query the last operation was called on, as it
\* was before the operation
TargetBounds == boundsHeap[Target(target').bounds]

\* C11: with a page set, get_bounds gives offset = (page - 1) * limit in
\* whichever order set_page and set_limit were called: after set_page(p) the
\* offset is (p - 1) times the limit set before, and after set_limit(n) on a
\* query with a page it is (page - 1) * n.
C11_PageOffset ==
    [][/\ last' = "set_page" =>
             get_bounds(boundsHeap', Target(target')).offset =
                 (ret'.args[1] - 1) * TargetBounds.limit
       /\ (last' = "set_limit" /\ TargetBounds.page # 0) =>
             get_bounds(boundsHeap', Target(target')).offset =
                 (TargetBounds.page - 1) * ret'.args[1]]_vars

\* C11 witness: set_page(2) then set_limit(2) gave offset 2
C11_Witness ==
    /\ last = "set_limit"
    /\ ret.args = <<2>>
    /\ boundsHeap[query.bounds].page = 2
    /\ target = "query"
    /\ get_bounds(boundsHeap, query).offset = 2

\* the query the last operation was called on, as the operation left it
TargetAfter == IF target' = "query" THEN query' ELSE clone'.q

\* C13: in_field or nin_field called with an option that maps to an empty
\* list raises an error, appends no criterion and leaves can_get as it was.
C13_EmptyOptionRejected ==
    [][(last' \in {"in_field", "nin_field"} /\ EmptyOption(ret'.args[3])) =>
          /\ ret'.raised = "ValueError"
          /\ TargetAfter.fields_where = Target(target').fields_where
          /\ TargetAfter.can_get = Target(target').can_get]_vars

\* C13 witness: after in_field("foo", []) cleared can_get, a call with a
\* value list and the options day=[1], month=[] was rejected
C13_Witness ==
    /\ last \in {"in_field", "nin_field"}
    /\ ret.raised = "ValueError"
    /\ ret.args[2] # <<>>
    /\ Len(ret.args[3]) = 2
    /\ target = "query"
    /\ ~query.can_get
    /\ Len(query.fields_where) = 1

\* C14: sort_field with direction 0 raises an error and appends nothing to
\* the sort criteria; with any other direction it appends exactly one
\* criterion, whose direction is 1 for a positive and -1 for a negative one.
C14_SortDirection ==
    [][last' = "sort_field" =>
          IF ret'.args[2] = 0
          THEN /\ ret'.raised = "ValueError"
               /\ TargetAfter.fields_sort = Target(target').fields_sort
          ELSE /\ ret'.raised = "none"
               /\ Len(TargetAfter.fields_sort) = Len(Target(target').fields_sort) + 1
               /\ SubSeq(TargetAfter.fields_sort, 1, Len(Target(target').fields_sort))
                      = Target(target').fields_sort
               /\ TargetAfter.fields_sort[Len(TargetAfter.fields_sort)].direction
                      = IF ret'.args[2] > 0 THEN 1 ELSE 0 - 1]_vars

\* C14 witness: sort_field("foo", -2) stored the direction -1
C14_Witness ==
    /\ last = "sort_field"
    /\ target = "query"
    /\ ret.args[2] = 0 - 2
    /\ Len(query.fields_sort) = 1
    /\ query.fields_sort[1].direction = 0 - 1

\* C14 witness of the error: sort_field("foo", 0) after one criterion
C14_WitnessZero ==
    /\ last = "sort_field"
    /\ target = "query"
    /\ ret.args[2] = 0
    /\ ret.raised = "ValueError"
    /\ Len(query.fields_sort) = 1

(***************************************************************************)
(* SpecDispatch: a query on which criteria are set by dynamic calls and by *)
(* direct calls of the <verb>_field methods, with names and aliases.       *)
(***************************************************************************)
DynNames ==
    {<<"is", "foo">>, <<"is", "che">>, <<"in", "foo", "bar">>, <<"desc", "che">>,
     <<"set", "che">>, <<"bogus", "foo">>, <<"foo">>}

AliasNames == {"foo", "che", "foo_bar"}

DirectVerbs == {"is", "in", "gt"}

\* query.<verb>_<name>(v), a method the class does not define
DynamicCall ==
    \E parts \in DynNames, v \in FieldVals :
        /\ nops < MaxOps
        /\ query' = getattr_call(query, parts, v).q
        /\ ret' = [NoRet EXCEPT !.raised = getattr_call(query, parts, v).raised,
                                !.message = getattr_call(query, parts, v).message,
                                !.args = <<parts, v>>]
        /\ nops' = nops + 1
        /\ target' = "query"
        /\ last' = "dynamic"
        /\ UNCHANGED <<table, made, boundsHeap, clone, iterVars, cacheVars>>

\* query.<verb>_field(name, v)
DirectCall ==
    \E verb \in DirectVerbs, n \in AliasNames, v \in FieldVals :
        /\ nops < MaxOps
        /\ query' = call_field(query, verb, n, v).q
        /\ ret' = [NoRet EXCEPT !.raised = call_field(query, verb, n, v).raised,
                                !.args = <<verb, n, v>>]
        /\ nops' = nops + 1
        /\ target' = "query"
        /\ last' = "direct"
        /\ UNCHANGED <<table, made, boundsHeap, clone, iterVars, cacheVars>>

NextDispatch == DynamicCall \/ DirectCall

SpecDispatch == InitBuilder /\ [][NextDispatch]_vars

\* C15: a dynamic call <verb>_<name>(v) whose verb has a <verb>_field method
\* leaves the query as <verb>_field(canonical name, v) would, the name
\* being what follows the first underscore; any other dynamic call raises
\* an error that names the method and leaves the query as it was.
C15_DynamicDispatch ==
    [][last' = "dynamic" =>
          IF Len(ret'.args[1]) >= 2 /\ ret'.args[1][1] \in FieldMethods
          THEN /\ query' = call_field(query, ret'.args[1][1],
                                      schema_field_name(join(Tail(ret'.args[1]))),
                                      ret'.args[2]).q
               /\ ret'.raised = "none"
          ELSE /\ ret'.raised = "AttributeError"
               /\ ret'.message = join(ret'.args[1])
               /\ query' = query]_vars

\* C15 witness: in_foo_bar(1) after a call appended the criterion on foo_bar
C15_Witness ==
    /\ last = "dynamic"
    /\ ret.args = <<(<<"in", "foo", "bar">>), 1>>
    /\ Len(query.fields_where) = 2
    /\ query.fields_where[2].verb = "in"
    /\ query.fields_where[2].name = "foo_bar"

\* C15 witness of the error: bogus_foo(1) on a query with a criterion
C15_WitnessUnknown ==
    /\ last = "dynamic"
    /\ ret.args[1] = <<"bogus", "foo">>
    /\ ret.raised = "AttributeError"
    /\ Len(query.fields_where) = 1

\* C16: every field name stored in a where-criterion is canonical, that is
\* the name the schema gives for some name, whether a dynamic or a direct
\* call stored it.
C16_CanonicalNames ==
    \A i \in 1..Len(query.fields_where) :
        query.fields_where[i].name \in {schema_field_name(n) : n \in AliasNames}

(***************************************************************************)
(* SpecGet: a query with a limit and an offset over a table, in_field and  *)
(* nin_field and set_field called on it, and the query executed.           *)
(***************************************************************************)
InitGet ==
    /\ \E n \in 0..MaxRows : table = [i \in 1..n |-> i]
    /\ \E l \in 0..MaxLimit, o \in 0..MaxOffset :
          boundsHeap = [r \in BoundsRefs |->
                           IF r = 1 THEN [limit |-> l, offset |-> o, page |-> 0]
                           ELSE NewBounds]
    /\ query = NewQuery(1)
    /\ made = <<>>
    /\ InitIterVars
    /\ InitQueryVars
    /\ InitCacheVars
    /\ last = "init"

Executed(label, r) ==
    /\ ret' = r
    /\ target' = "query"
    /\ nops' = nops + 1
    /\ last' = label
    /\ UNCHANGED <<clone, iterVars, cacheVars>>

\* query.get(limit)
Get ==
    \E l \in {NoneVal} \cup 0..MaxLimit :
        /\ nops < MaxOps
        /\ LET r == get(table, boundsHeap, query, l)
           IN  /\ boundsHeap' = r.heap
               /\ made' = r.made
               /\ query' = [query EXCEPT !.default_val = r.default_val]
               /\ Executed("get", [NoRet EXCEPT !.kind = "list", !.rows = r.results,
                                                !.has_more = r.has_more])
        /\ UNCHANGED table

\* query.get_one()
GetOne ==
    /\ nops < MaxOps
    /\ LET r == get_one(table, boundsHeap, query)
       IN  /\ made' = r.made
           /\ query' = [query EXCEPT !.default_val = r.default_val]
           /\ Executed("get_one",
                       [NoRet EXCEPT !.kind = IF r.results = <<>> THEN "None" ELSE "row",
                                     !.rows = r.results])
    /\ UNCHANGED <<table, boundsHeap>>

\* query.count()
Count ==
    /\ nops < MaxOps
    /\ LET r == count(table, boundsHeap, query)
       IN  /\ made' = r.made
           /\ query' = [query EXCEPT !.default_val = r.default_val]
           /\ Executed("count", [NoRet EXCEPT !.kind = "int", !.num = r.num])
    /\ UNCHANGED <<table, boundsHeap>>

\* query.insert(); the new row is one the query selects, or is not
Insert ==
    \E selected \in BOOLEAN :
        /\ nops < MaxOps
        /\ selected => Len(table) < MaxRows
        /\ LET r == insert(table, boundsHeap, query)
           IN  /\ made' = r.made
               /\ query' = r.q
               /\ table' = IF selected THEN Append(table, Len(table) + 1) ELSE table
               /\ Executed("insert", [NoRet EXCEPT !.kind = "int", !.num = r.num])
        /\ UNCHANGED boundsHeap

\* query.update()
Update ==
    /\ nops < MaxOps
    /\ LET r == update(table, boundsHeap, query)
       IN  /\ made' = r.made
           /\ query' = r.q
           /\ Executed("update", [NoRet EXCEPT !.kind = "int", !.num = r.num])
    /\ UNCHANGED <<table, boundsHeap>>

\* query.delete()
Delete ==
    /\ nops < MaxOps
    /\ LET r == delete(table, boundsHeap, query)
       IN  /\ made' = r.made
           /\ query' = [query EXCEPT !.default_val = r.default_val]
           /\ table' = IF query.can_get THEN <<>> ELSE table
           /\ Executed("delete", [NoRet EXCEPT !.kind = r.kind, !.num = r.num])
    /\ UNCHANGED boundsHeap

NextGet ==
    \/ SetField
    \/ InField
    \/ NinField
    \/ Get
    \/ GetOne
    \/ Count
    \/ Insert
    \/ Update
    \/ Delete

SpecGet == InitGet /\ [][NextGet]_vars

\* the limit and the offset of the query
Limit == boundsHeap[query.bounds].limit

Offset == boundsHeap[query.bounds].offset

\* what C3 says of a get() with a limit
ProbeContract ==
    /\ Len(made) = 1
    /\ made[1] = [op |-> "get", limit |-> Limit + 1, offset |-> Offset]
    /\ ret.rows = SubSeq(table, Offset + 1, Min(Offset + Limit, Len(table)))
    /\ ret.has_more <=> Len(table) - Offset > Limit

\* C3 as stated: get() with a limit n > 0 makes exactly one backend call,
\* for n + 1 rows, and returns the first min(n, available) rows at the
\* offset, with has_more true exactly when a row exists beyond them.
C3_Original == (last = "get" /\ Limit > 0) => ProbeContract

\* C3 as amended: the same for a query that can be executed; a query whose
\* can_get is false makes no backend call and returns no rows and has_more
\* false.
C3_Probe ==
    (last = "get" /\ Limit > 0) =>
        IF query.can_get
        THEN ProbeContract
        ELSE made = <<>> /\ ret.rows = <<>> /\ ~ret.has_more

\* C3 witness: a get with limit 2 that found a third row and dropped it
C3_Witness ==
    /\ last = "get"
    /\ query.can_get
    /\ Limit = 2
    /\ ret.rows = <<2, 3>>
    /\ ret.has_more
    /\ made[1].limit = 3

\* an in or nin criterion with an empty list and no options is among the
\* where-criteria
HasEmptyIn(q) ==
    \E i \in 1..Len(q.fields_where) :
        /\ q.fields_where[i].verb \in {"in", "nin"}
        /\ q.fields_where[i].vals = <<>>
        /\ q.fields_where[i].kwargs = <<>>

\* C5: after in_field or nin_field with an empty list and no options, the
\* call itself raises nothing, and get() raises nothing, makes no backend
\* call and returns no rows with has_more false.
C5_EmptyIn ==
    HasEmptyIn(query) =>
        /\ (last \in {"in_field", "nin_field"} /\ ret.args[2] = <<>> /\ ret.args[3] = <<>>)
              => ret.raised = "none"
        /\ last = "get" =>
              /\ ret.raised = "none"
              /\ ret.kind = "list"
              /\ ret.rows = <<>>
              /\ ~ret.has_more
              /\ made = <<>>

\* C5 witness: get() after an empty in/nin on a table that has rows
C5_Witness ==
    /\ last = "get"
    /\ HasEmptyIn(query)
    /\ Len(table) > 0
    /\ ret.rows = <<>>
    /\ made = <<>>

\* C6: with can_get false each of get, get_one, count, insert and update
\* returns its default ([] for get, None for get_one, 0 for count, insert
\* and update) and makes no backend call.
C6_Defaults ==
    (~query.can_get /\ last \in {"get", "get_one", "count", "insert", "update"}) =>
        /\ made = <<>>
        /\ ret.raised = "none"
        /\ last = "get" => ret.kind = "list" /\ ret.rows = <<>>
        /\ last = "get_one" => ret.kind = "None"
        /\ last \in {"count", "insert", "update"} => ret.kind = "int" /\ ret.num = 0

(***************************************************************************)
(* SpecSort: a table of rows in any order, sort criteria added to a query   *)
(* and the query executed.                                                 *)
(***************************************************************************)
SortRowVals == 1..3

InitSort ==
    /\ \E n \in 0..MaxSortRows : table \in [1..n -> SortRowVals]
    /\ boundsHeap = [r \in BoundsRefs |-> NewBounds]
    /\ query = NewQuery(1)
    /\ made = <<>>
    /\ InitIterVars
    /\ InitQueryVars
    /\ InitCacheVars
    /\ last = "init"

NextSort == SortField \/ Get

SpecSort == InitSort /\ [][NextSort]_vars

\* the first position of v in s, 0 when v is not in s
Pos(s, v) ==
    IF \E i \in 1..Len(s) : s[i] = v
    THEN CHOOSE i \in 1..Len(s) : s[i] = v /\ \A j \in 1..(i - 1) : s[j] # v
    ELSE 0

\* t has no element twice, and s holds every element of t exactly once and
\* nothing else
IsPermutation(s, t) ==
    /\ Len(s) = Len(t)
    /\ \A i \in 1..Len(t) :
          /\ Cardinality({j \in 1..Len(t) : t[j] = t[i]}) = 1
          /\ Cardinality({j \in 1..Len(s) : s[j] = t[i]}) = 1

\* the order list of the first sort criterion read in the criterion's
\* direction: as it stands for ascending, reversed for descending
ListOrder ==
    IF query.fields_sort[1].direction > 0
    THEN query.fields_sort[1].vals
    ELSE Reverse(query.fields_sort[1].vals)

\* C12: a get() sorted by a field with an order list returns the rows whose
\* value is in the list ranked by the position of the value in the list,
\* read forwards for ascending and backwards for descending; rows that are
\* the values of the list, one each, come back as the list itself or as the
\* reversed list.
C12_ExplicitOrder ==
    (/\ last = "get"
     /\ query.fields_sort # <<>>
     /\ query.fields_sort[1].vals # <<>>) =>
        /\ \A i, j \in 1..Len(ret.rows) :
              (i < j /\ Pos(ListOrder, ret.rows[i]) # 0 /\ Pos(ListOrder, ret.rows[j]) # 0)
                  => Pos(ListOrder, ret.rows[i]) <= Pos(ListOrder, ret.rows[j])
        /\ (Limit = 0 /\ IsPermutation(table, ListOrder)) => ret.rows = ListOrder

\* C12 witness: rows 1, 2, 3 sorted descending by the list [3, 1, 2]
C12_Witness ==
    /\ last = "get"
    /\ table = <<1, 2, 3>>
    /\ Len(query.fields_sort) = 1
    /\ query.fields_sort[1].vals = <<3, 1, 2>>
    /\ query.fields_sort[1].direction = 0 - 1
    /\ ret.rows = <<2, 1, 3>>

(***************************************************************************)
(* SpecCache: one CacheQuery over a table; criteria are added to it, it is *)
(* executed, the clock moves, and update and delete are called.            *)
(***************************************************************************)
TickSteps == {1, cache_ttl - 1}

InitCache ==
    /\ \E n \in 0..MaxRows : table = [i \in 1..n |-> i]
    /\ \E l \in 0..MaxLimit :
          boundsHeap = [r \in BoundsRefs |->
                           IF r = 1 THEN [limit |-> l, offset |-> 0, page |-> 0]
                           ELSE NewBounds]
    /\ query = NewQuery(1)
    /\ made = <<>>
    /\ InitIterVars
    /\ InitQueryVars
    /\ \E present \in BOOLEAN : cached = [present |-> present, store |-> <<>>]
    /\ now = 0
    /\ log = <<>>
    /\ last = "init"

LogRec(op, key, hit, n) ==
    [op |-> op, key |-> key, at |-> now, hit |-> hit, ncalls |-> n]

CacheExecuted(label, r, key, hit) ==
    /\ ret' = r
    /\ log' = Append(log, LogRec(label, key, hit, Len(made')))
    /\ last' = label
    /\ UNCHANGED <<table, iterVars, clone, target, nops, now>>

\* the clock moves on
Tick ==
    \E d \in TickSteps :
        /\ nops < MaxTicks
        /\ nops' = nops + 1
        /\ now' = now + d
        /\ last' = "tick"
        /\ UNCHANGED <<table, made, boundsHeap, query, iterVars, clone, target, ret,
                       cached, log>>

\* query.is_field("foo", 1): the fingerprint of the query changes
CacheWhere ==
    /\ Len(query.fields_where) < MaxOps
    /\ query' = is_field(query, "foo", 1, <<>>)
    /\ last' = "where_field"
    /\ UNCHANGED <<table, made, boundsHeap, iterVars, queryVars, cacheVars>>

\* query.get()
CacheGet ==
    /\ Len(log) < MaxExecs
    /\ LET r == cache_query_get(table, boundsHeap, query, NoneVal, cached, now)
       IN  /\ boundsHeap' = r.heap
           /\ made' = r.made
           /\ cached' = r.cached
           /\ query' = [query EXCEPT !.default_val = "list"]
           /\ CacheExecuted("get", [NoRet EXCEPT !.kind = "list", !.rows = r.results,
                                                 !.has_more = r.has_more],
                            r.key, r.cache_hit)

\* query.get_one()
CacheGetOne ==
    /\ Len(log) < MaxExecs
    /\ LET r == cache_run(table, boundsHeap, query, "get_one", cached, now)
       IN  /\ made' = r.made
           /\ cached' = r.cached
           /\ query' = [query EXCEPT !.default_val = "None"]
           /\ CacheExecuted("get_one",
                            [NoRet EXCEPT !.kind = IF r.rows = <<>> THEN "None" ELSE "row",
                                          !.rows = r.rows],
                            r.key, r.cache_hit)
    /\ UNCHANGED boundsHeap

\* query.count()
CacheCount ==
    /\ Len(log) < MaxExecs
    /\ LET r == cache_run(table, boundsHeap, [query EXCEPT !.fields_sort = <<>>],
                          "count", cached, now)
       IN  /\ made' = r.made
           /\ cached' = r.cached
           /\ query' = [query EXCEPT !.default_val = "0"]
           /\ CacheExecuted("count", [NoRet EXCEPT !.kind = "int", !.num = r.num],
                            r.key, r.cache_hit)
    /\ UNCHANGED boundsHeap

\* query.update()
CacheUpdate ==
    /\ Len(log) < MaxExecs
    /\ LET r == cache_update(cached)
       IN  /\ made' = r.made
           /\ cached' = r.cached
           /\ CacheExecuted("update", [NoRet EXCEPT !.raised = r.raised], <<>>, FALSE)
    /\ UNCHANGED <<boundsHeap, query>>

\* query.delete()
CacheDelete ==
    /\ Len(log) < MaxExecs
    /\ LET r == cache_delete(cached)
       IN  /\ made' = r.made
           /\ cached' = r.cached
           /\ CacheExecuted("delete", [NoRet EXCEPT !.raised = r.raised], <<>>, FALSE)
    /\ UNCHANGED <<boundsHeap, query>>

NextCache ==
    \/ Tick
    \/ CacheWhere
    \/ CacheGet
    \/ CacheGetOne
    \/ CacheCount
    \/ CacheUpdate
    \/ CacheDelete

SpecCache == InitCache /\ [][NextCache]_vars

\* the execution that stored the entry execution j looks up: the last miss
\* of j's key before j, 0 when there is none or when update or delete was
\* called since
StoredBy(j) ==
    LET misses == {i \in 1..(j - 1) :
                      /\ log[i].key = log[j].key
                      /\ ~log[i].hit
                      /\ \A m \in (i + 1)..(j - 1) :
                             log[m].op \notin {"update", "delete"}}
    IN  IF misses = {} THEN 0 ELSE CHOOSE i \in misses : \A m \in misses : m <= i

\* C7: an execution whose entry was stored less than cache_ttl ago is a hit
\* and makes no backend call; one whose entry was stored cache_ttl ago or
\* longer is a miss and makes a backend call.
C7_HitWithinTtl ==
    \A j \in 1..Len(log) :
        (log[j].op \in {"get", "get_one", "count"} /\ StoredBy(j) # 0) =>
            IF log[j].at - log[StoredBy(j)].at < cache_ttl
            THEN log[j].hit /\ log[j].ncalls = 0
            ELSE ~log[j].hit /\ log[j].ncalls = 1

\* C8: after update() or delete() on a query whose table has rows to write
\* to, the store of the instance is empty: no entry cached before the write
\* is left in it.
C8_InvalidateAll ==
    (last \in {"update", "delete"} /\ Len(table) > 0) =>
        DOMAIN cached.store = {}

(***************************************************************************)
(* SpecAll: a query with a limit and an offset, Query.all(), iteration     *)
(* (started, pulled, abandoned and started again) and random access.       *)
(***************************************************************************)
InitAll ==
    /\ \E n \in 0..MaxRows : table = [i \in 1..n |-> i]
    /\ \E l \in 0..MaxLimit, o \in 0..MaxOffset :
          boundsHeap = [r \in BoundsRefs |->
                           IF r = 1 THEN [limit |-> l, offset |-> o, page |-> 0]
                           ELSE NewBounds]
    /\ query = NewQuery(1)
    /\ made = <<>>
    /\ InitIterVars
    /\ InitQueryVars
    /\ InitCacheVars
    /\ last = "init"

SetWorld(w) ==
    /\ boundsHeap' = w.heap
    /\ chunks' = w.chunks
    /\ made' = w.made
    /\ it' = w.it

\* it = query.all()
QueryAll ==
    /\ ~it.made
    /\ SetWorld(AllIterator(table, World, query))
    /\ last' = "all"
    /\ UNCHANGED <<table, query, gen, gen2, item, ri, out, queryVars, cacheVars>>

\* iter(it): a new generator, which has not run yet
IterStart ==
    /\ it.made
    /\ gen.trav < MaxTraversals
    /\ gen' = [NoGenerator EXCEPT !.pc = "start", !.has_more = TRUE,
                                  !.trav = gen.trav + 1]
    /\ made' = <<>>
    /\ last' = "iter"
    /\ UNCHANGED <<table, boundsHeap, query, it, chunks, gen2, item, ri, out, queryVars,
                   cacheVars>>

\* next(generator)
GenNext ==
    /\ gen.pc \in {"start", "yield"}
    /\ LET s == IF gen.pc = "start" THEN iter_first(table, World, gen)
                ELSE advance(table, World, gen)
       IN  SetWorld(s.w) /\ gen' = s.g
    /\ last' = "next"
    /\ UNCHANGED <<table, query, gen2, item, ri, out, queryVars, cacheVars>>

\* it[k]
GetItem ==
    /\ it.made
    /\ \E k \in 0..MaxIndex :
          LET r == getitem(table, World, k)
          IN  /\ SetWorld(r.w)
              /\ item' = [k |-> k, in_window |-> r.in_window,
                          outcome |-> r.outcome, value |-> r.value,
                          pre |-> IterView(World)]
    /\ last' = "getitem"
    /\ UNCHANGED <<table, query, gen, gen2, ri, out, queryVars, cacheVars>>

NextAll == QueryAll \/ IterStart \/ GenNext \/ GetItem

SpecAll == InitAll /\ [][NextAll]_vars

(***************************************************************************)
(* Claims about the AllIterator.                                           *)
(***************************************************************************)
IsPrefix(s, t) == Len(s) <= Len(t) /\ SubSeq(t, 1, Len(s)) = s

\* the rows of the table from the iterator's start offset onward
Expected == SubSeq(table, it.start_offset + 1, Len(table))

C1_Prefix ==
    gen.pc # "none" =>
        /\ IsPrefix(gen.yielded, Expected)
        /\ gen.pc = "done" => gen.yielded = Expected

\* C1: iterating the AllIterator yields every row from the start offset
\* onward exactly once, in backend order, and then ends: what has been
\* yielded is after every step a prefix of those rows, and all of them once
\* the generator has ended; and every next() either yields one more row or
\* ends the generator, so that an iteration over n rows ends with the
\* (n + 1)st next().
C1_ChunkedTraversal ==
    [][/\ C1_Prefix'
       /\ last' = "next" =>
             \/ Len(gen'.yielded) = Len(gen.yielded) + 1
             \/ gen'.pc = "done"]_vars

\* C1 witness: 5 rows traversed in chunks of 2
C1_Witness ==
    /\ gen.pc = "done"
    /\ it.chunk_limit = 2
    /\ it.start_offset = 0
    /\ gen.yielded = <<1, 2, 3, 4, 5>>

\* C2: a complete traversal issues exactly max(1, ceil(N/c)) chunk fetches,
\* has_more is true for every fetch but the last, and no fetch follows a
\* chunk that reported has_more false.  Every chunk fetch makes one chunk, so
\* chunks is the sequence of the fetches.
C2_FetchCount ==
    (gen.pc = "done" /\ gen.trav = 1) =>
        /\ Len(chunks) = Max(1, CeilDiv(Len(Expected), it.chunk_limit))
        /\ \A i \in 1..Len(chunks) : chunks[i].has_more <=> i < Len(chunks)

\* C9: it[k] for a k that has a row: from the loaded chunk and without a
\* backend call when k is in the chunk's offset range, else by exactly one
\* get_one at offset k; the loaded chunk, the offset and the start offset of
\* the iterator are as before the access, whatever k.
C9_RandomAccess ==
    last = "getitem" =>
        /\ IterView(World) = item.pre
        /\ item.k < Len(table) =>
              /\ item.outcome = "row"
              /\ item.value = table[item.k + 1]
              /\ IF item.k >= it.offset /\ item.k < it.offset + it.chunk_limit
                 THEN made = <<>>
                 ELSE /\ Len(made) = 1
                      /\ made[1].op = "get_one"
                      /\ made[1].offset = item.k

\* C9 witness: it[3] over 5 rows with only the chunk of rows 0 and 1 loaded
C9_Witness ==
    /\ last = "getitem"
    /\ Len(table) = 5
    /\ it.offset = 0
    /\ chunks[it.results].results = <<1, 2>>
    /\ item.k = 3
    /\ item.value = 4
    /\ Len(made) = 1

\* C10: it[k] for a k at which the table has no row raises IndexError, inside
\* the loaded chunk's offset range and outside it.
C10_OutOfRange ==
    (last = "getitem" /\ item.k >= Len(table)) => item.outcome = "IndexError"

\* C10 witness: an index inside the offset range of a short last chunk
C10_Witness ==
    /\ last = "getitem"
    /\ item.in_window
    /\ item.k >= Len(table)
    /\ Len(chunks[it.results].results) = 1
    /\ item.outcome = "IndexError"

\* the other case of C10: an index outside the loaded chunk's offset range
C10_WitnessOutside ==
    /\ last = "getitem"
    /\ ~item.in_window
    /\ item.k >= Len(table)
    /\ item.outcome = "IndexError"

\* C17: Query.all() and the traversal of the iterator it returns, in part or
\* to the end, leave the limit, the offset, the page, the selected fields,
\* the where-criteria and the sort-criteria of the caller's query as they
\* were.
C17_CallerQueryUnchanged ==
    [][last' \in {"all", "iter", "next"} =>
          QueryView(boundsHeap', query') = QueryView(boundsHeap, query)]_vars

\* C18: a traversal after the first, whether the one before it ended or was
\* abandoned, yields the rows from the start offset onward again, all of
\* them once it has ended; and when the offset had moved away from the start
\* offset its first next() fetches the chunk at the start offset again.
C18_Reiterate ==
    [][(last' = "next" /\ gen.trav >= 2) =>
          /\ IsPrefix(gen'.yielded, Expected)
          /\ gen'.pc = "done" => gen'.yielded = Expected
          /\ (gen.pc = "start" /\ it.offset # it.start_offset) =>
                /\ made' # <<>>
                /\ made'[1].op = "get"
                /\ made'[1].offset = it.start_offset]_vars

\* C18 witness: the second traversal of 5 rows in chunks of 2 has ended
C18_Witness ==
    /\ gen.trav = 2
    /\ gen.pc = "done"
    /\ it.chunk_limit = 2
    /\ it.start_offset = 0
    /\ gen.yielded = <<1, 2, 3, 4, 5>>

\* C18 witness of the abandoned traversal: the second traversal starts over
\* with row 1 when the iterator had moved on to the chunk at offset 2
C18_WitnessAbandoned ==
    /\ gen.trav = 2
    /\ gen.pc = "yield"
    /\ gen.yielded = <<1>>
    /\ it.chunk_limit = 2
    /\ Len(chunks) = 3
    /\ Len(made) = 1

(***************************************************************************)
(* SpecIter: a query with its selected fields, the Iterator of its get(),  *)
(* the filter and the projection set on it, its traversals, and            *)
(* query.value().                                                          *)
(***************************************************************************)
SelectNames == {"foo", "bar"}

Filters == {[on |-> TRUE, accepts |-> a] : a \in {{}, {2}, {1, 3}, {1, 2, 3}}}

InitIter ==
    /\ \E n \in 0..MaxBatch : table = [i \in 1..n |-> i]
    /\ made = <<>>
    /\ boundsHeap = [r \in BoundsRefs |-> NewBounds]
    /\ query = NewQuery(1)
    /\ InitIterVars
    /\ InitQueryVars
    /\ InitCacheVars
    /\ last = "init"

\* query.select_field(n)
SelectField ==
    \E n \in SelectNames :
        /\ CanBuild("query")
        /\ SetTarget("query", select_field(query, n), "none", "select_field", <<n>>)
        /\ UNCHANGED boundsHeap

\* query.in_field("foo", []): the query that cannot match
EmptyIn ==
    /\ CanBuild("query")
    /\ SetTarget("query", in_field(query, "foo", <<>>, <<>>).q,
                 in_field(query, "foo", <<>>, <<>>).raised, "in_field", <<"foo">>)
    /\ UNCHANGED boundsHeap

\* ri = query.get()
IterGet ==
    /\ ~ri.made
    /\ LET r == get(table, boundsHeap, query, NoneVal)
       IN  /\ boundsHeap' = r.heap
           /\ made' = r.made
           /\ query' = [query EXCEPT !.default_val = r.default_val]
           /\ ri' = Iterator(r.results, r.has_more, query)
           /\ ret' = [NoRet EXCEPT !.kind = "list", !.rows = r.results,
                                   !.has_more = r.has_more]
    /\ out' = [NoTraversal EXCEPT !.pc = "start"]
    /\ target' = "query"
    /\ last' = "get"
    /\ UNCHANGED <<table, it, chunks, gen, gen2, item, clone, nops, cacheVars>>

\* ri.ifilter = f, before a traversal
IterFilter ==
    \E f \in Filters :
        /\ ri.made
        /\ out.pc = "start"
        /\ ri' = [ri EXCEPT !.ifilter = f]
        /\ ret' = NoRet
        /\ last' = "ifilter"
        /\ UNCHANGED <<table, made, boundsHeap, query, it, chunks, gen, gen2, item, out,
                       clone, target, nops, cacheVars>>

\* ri.values()
IterValues ==
    /\ ri.made
    /\ ri' = iterator_values(ri).r
    /\ ret' = [NoRet EXCEPT !.raised = iterator_values(ri).raised]
    /\ last' = "values"
    /\ UNCHANGED <<table, made, boundsHeap, query, it, chunks, gen, gen2, item, out,
                   clone, target, nops, cacheVars>>

\* iter(ri)
IterIter ==
    /\ ri.made
    /\ out.trav < MaxTraversals
    /\ ri' = iterator_reset(ri)
    /\ out' = [NoTraversal EXCEPT !.pc = "start", !.trav = out.trav + 1]
    /\ ret' = NoRet
    /\ last' = "iter"
    /\ UNCHANGED <<table, made, boundsHeap, query, it, chunks, gen, gen2, item, clone,
                   target, nops, cacheVars>>

IterNextDone(s) ==
    /\ ri' = s.r
    /\ out' = [out EXCEPT !.pc = IF s.outcome = "yield" THEN "yield"
                                 ELSE IF s.outcome = "StopIteration" THEN "done"
                                 ELSE "error",
                          !.pulled = s.pulled,
                          !.yielded = IF s.outcome = "yield"
                                      THEN Append(out.yielded, s.value)
                                      ELSE out.yielded]
    /\ ret' = [NoRet EXCEPT !.raised = IF s.outcome = "yield" THEN "none" ELSE s.outcome,
                            !.kind = s.value.kind, !.rows = s.value.vals]

\* ri.next()
IterNext ==
    /\ ri.made
    /\ out.pc \in {"start", "yield"}
    /\ IterNextDone(iterator_next(ri, out.pulled))
    /\ last' = "next"
    /\ UNCHANGED <<table, made, boundsHeap, query, it, chunks, gen, gen2, item, clone,
                   target, nops, cacheVars>>

ValueDone(r) ==
    /\ made' = r.made
    /\ ret' = [NoRet EXCEPT !.raised = r.raised, !.kind = r.kind, !.rows = r.vals]

\* query.value(), before a traversal of ri
Value ==
    /\ out.pc \in {"none", "start"}
    /\ ValueDone(value(table, boundsHeap, query))
    /\ target' = "query"
    /\ last' = "value"
    /\ UNCHANGED <<table, boundsHeap, query, iterVars, clone, nops, cacheVars>>

NextIter ==
    SelectField \/ EmptyIn \/ IterGet \/ IterFilter \/ IterValues \/ IterIter
        \/ IterNext \/ Value

SpecIter == InitIter /\ [][NextIter]_vars

\* the objects of the pulled elements that the filter f accepts, in order
RECURSIVE Accepted(_, _)
Accepted(pulled, f) ==
    IF pulled = <<>> THEN <<>>
    ELSE IF ifilter_call(f, pulled[Len(pulled)].o)
         THEN Append(Accepted(SubSeq(pulled, 1, Len(pulled) - 1), f),
                     pulled[Len(pulled)].o)
         ELSE Accepted(SubSeq(pulled, 1, Len(pulled) - 1), f)

\* every element pulled in this traversal was tested against the filter that
\* is set now
UnderFilter ==
    /\ ri.made
    /\ ri.ifilter.on
    /\ out.pc \in {"start", "yield", "done"}
    /\ \A i \in 1..Len(out.pulled) : out.pulled[i].ifilter = ri.ifilter

Projected(d, names) == [i \in 1..Len(names) |-> row_get(d, names[i])]

\* C20: values() and value() raise ValueError when no field is selected and
\* raise nothing otherwise; value() then returns None or the first row
\* projected, and every object yielded after values() is its row projected
\* to the selected fields in selection order, the bare value for one field.
C20_Projection ==
    [][/\ last' = "values" =>
             ret'.raised = IF ri.fields_select = <<>> THEN "ValueError" ELSE "none"
       /\ last' = "value" =>
             /\ ret'.raised =
                    IF fields_select(query) = <<>> THEN "ValueError" ELSE "none"
             /\ ret'.kind \in {"scalar", "list"} =>
                    /\ ret'.rows = Projected(table[1], fields_select(query))
                    /\ (ret'.kind = "scalar") = (Len(fields_select(query)) = 1)
       /\ (last' = "next" /\ ri.values /\ ri.fcount > 0 /\ out'.pc = "yield") =>
             /\ ret'.rows = Projected(ri.results[ri'.pos], ri.fields_select)
             /\ ret'.kind = IF Len(ri.fields_select) = 1 THEN "scalar" ELSE "list"]_vars

(***************************************************************************)
(* SpecFields: a query, its copy, and the operations that set fields on    *)
(* either of the two.                                                      *)
(***************************************************************************)
FieldDicts ==
    {[n \in {} |-> 1], [n \in {"foo"} |-> 1], [n \in {"bar"} |-> NoneVal],
     [n \in {"foo", "bar"} |-> 1]}

\* t.set_fields(d) for a dict d
SetFields ==
    \E t \in Targets, d \in FieldDicts :
        /\ CanBuild(t)
        /\ SetTarget(t, set_fields(Target(t), d), "none", "set_fields", <<d>>)
        /\ UNCHANGED boundsHeap

NextFields == Copy \/ SetField \/ SelectField \/ SetFields

SpecFields == InitBuilder /\ [][NextFields]_vars

\* the name and value pairs of a field list
FieldPairs(fs) == {fs[i] : i \in 1..Len(fs)}

\* C21: after set_fields(d) the field list of the query holds the items of d
\* and nothing else, whatever was set on it before.
C21_SetFieldsReplaces ==
    [][last' = "set_fields" =>
          /\ FieldPairs(TargetAfter.fields_set) =
                 {[name |-> n, val |-> ret'.args[1][n]] : n \in DOMAIN ret'.args[1]}
          /\ Len(TargetAfter.fields_set) = Cardinality(DOMAIN ret'.args[1])]_vars

(***************************************************************************)
(* SpecAllCount: SpecAll with AllIterator.count().                         *)
(***************************************************************************)
\* the count query of AllIterator.count(): q.count() on the copy q of the
\* iterator's query, once its limit and offset were set to 0 in the heap h
all_count_query(w, h, c) ==
    [w |-> [w EXCEPT !.heap = h, !.made = w.made \o c.made], num |-> c.num]

\* AllIterator.count(): a count query without limit and offset on a copy of
\* the query when the loaded chunk has more rows after it, and otherwise the
\* rows before the loaded chunk plus the rows of the loaded chunk
all_count(rows, w) ==
    IF w.chunks[w.it.results].has_more
    THEN all_count_query(w,
             set_offset(set_limit(w.heap, copy(w.it.query), 0), copy(w.it.query), 0),
             count(rows,
                   set_offset(set_limit(w.heap, copy(w.it.query), 0),
                              copy(w.it.query), 0),
                   copy(w.it.query)))
    ELSE [w |-> w,
          num |-> (w.it.offset - w.it.start_offset)
                      + Len(w.chunks[w.it.results].results)]

AllCountDone(r) ==
    /\ SetWorld(r.w)
    /\ ret' = [NoRet EXCEPT !.kind = "num", !.num = r.num]

\* it.count()
AllCount ==
    /\ it.made
    /\ AllCountDone(all_count(table, World))
    /\ last' = "count"
    /\ UNCHANGED <<table, query, gen, gen2, item, ri, out, clone, target, nops,
                   cacheVars>>

NextAllCount == NextAll \/ AllCount

SpecAllCount == InitAll /\ [][NextAllCount]_vars

\* C22: whenever it is called, before, during or after a traversal,
\* it.count() returns the number of rows of the table from the iterator's
\* start offset onward, which is what a full traversal yields.
C22_CountStable ==
    last = "count" => ret.num = Len(Expected)

(***************************************************************************)
(* Claims about the results a CacheQuery hands back.                       *)
(***************************************************************************)
\* C23: a get() that is a cache hit, called right after the get() whose miss
\* stored the entry, returns the rows and the has_more flag that get()
\* returned.
C23_HitEqualsMiss ==
    [][(/\ last = "get"
        /\ last' = "get"
        /\ ~log[Len(log)].hit
        /\ log'[Len(log')].hit) =>
           /\ ret'.rows = ret.rows
           /\ ret'.has_more = ret.has_more]_vars

(***************************************************************************)
(* SpecPaged: a CacheQuery whose limit and offset are changed between its  *)
(* executions.                                                             *)
(***************************************************************************)
NextPaged == CacheGet \/ SetLimit \/ SetOffset

SpecPaged == InitCache /\ [][NextPaged]_vars

\* C24: every get() of a CacheQuery, hit or miss, returns the rows of the
\* window its own limit and offset describe, whatever the limit and offset
\* of the earlier executions with the same criteria were.
C24_OwnWindow ==
    [][last' = "get" =>
          ret'.rows = Window(table, get_bounds(boundsHeap', query').limit,
                             get_bounds(boundsHeap', query').offset)]_vars

(***************************************************************************)
(* Claims about can_get under the builder operations.                      *)
(***************************************************************************)
\* C25: no builder operation sets can_get back to True, on the query or on
\* its copy, and a copy taken of a query has the can_get of that query.
C25_CanGetMonotone ==
    [][/\ ~query.can_get => ~query'.can_get
       /\ (clone.made /\ ~clone.q.can_get) => ~clone'.q.can_get
       /\ last' = "copy" => clone'.q.can_get = query.can_get]_vars

\* an in_field with no values, a later in_field with values, then the copy
C25_Witness ==
    /\ last = "copy"
    /\ ~query.can_get
    /\ ~clone.q.can_get
    /\ Len(query.fields_where) = 2
    /\ query.fields_where[1].vals = <<>>
    /\ query.fields_where[2].vals # <<>>

(***************************************************************************)
(* SpecFrame: get() and count() on a query with sort criteria and bounds,  *)
(* the backend call returning or raising.                                  *)
(***************************************************************************)
\* Query.get(limit) when interface.get raises: the exception leaves get at
\* the call of _query, after the limit was raised to the probe limit
get_raises(h, q, limit) ==
    [heap |-> get_probe(h, q, limit).heap,
     made |-> <<CallRec("get", get_probe(h, q, limit).heap, q)>>,
     default_val |-> "list"]

\* Query.count() when interface.count raises: the exception leaves count at
\* the call of _query, after the sort criteria were taken out
count_raises(h, q) ==
    [q |-> [q EXCEPT !.fields_sort = <<>>, !.default_val = "0"],
     made |-> <<CallRec("count", h, q)>>]

FrameGetReturns(l) ==
    /\ boundsHeap' = get(table, boundsHeap, query, l).heap
    /\ made' = get(table, boundsHeap, query, l).made
    /\ query' = [query EXCEPT !.default_val = "list"]
    /\ Executed("get", [NoRet EXCEPT !.kind = "list", !.args = <<l>>,
                                     !.rows = get(table, boundsHeap, query, l).results,
                                     !.has_more =
                                         get(table, boundsHeap, query, l).has_more])

FrameGetRaises(l) ==
    /\ query.can_get
    /\ boundsHeap' = get_raises(boundsHeap, query, l).heap
    /\ made' = get_raises(boundsHeap, query, l).made
    /\ query' = [query EXCEPT !.default_val = "list"]
    /\ Executed("get", [NoRet EXCEPT !.raised = "InterfaceError", !.args = <<l>>])

\* query.get(l), the backend returning or raising
FrameGet ==
    \E l \in {NoneVal} \cup 0..MaxLimit :
        /\ nops < MaxOps
        /\ FrameGetReturns(l) \/ FrameGetRaises(l)
        /\ UNCHANGED table

FrameCountReturns ==
    /\ made' = count(table, boundsHeap, query).made
    /\ query' = [query EXCEPT !.default_val = "0"]
    /\ Executed("count", [NoRet EXCEPT !.kind = "int",
                                       !.num = count(table, boundsHeap, query).num])

FrameCountRaises ==
    /\ query.can_get
    /\ made' = count_raises(boundsHeap, query).made
    /\ query' = count_raises(boundsHeap, query).q
    /\ Executed("count", [NoRet EXCEPT !.raised = "InterfaceError"])

\* query.count(), the backend returning or raising
FrameCount ==
    /\ nops < MaxOps
    /\ FrameCountReturns \/ FrameCountRaises
    /\ UNCHANGED <<table, boundsHeap>>

NextFrame == SortField \/ InField \/ FrameGet \/ FrameCount

SpecFrame == InitGet /\ [][NextFrame]_vars

\* the bounds of the query once the limit argument of get was applied
BoundsWith(b, l) == IF l = NoneVal THEN b ELSE [b EXCEPT !.limit = l]

\* C26: after get(l) the where-criteria and the sort-criteria of the query
\* are as before the call and its bounds are those before the call with l
\* applied; after count() criteria and bounds are as before the call;
\* whether the backend call returned or raised.
C26_ReadsLeaveQuery ==
    [][/\ last' = "get" =>
             /\ query'.fields_where = query.fields_where
             /\ query'.fields_sort = query.fields_sort
             /\ boundsHeap'[query.bounds] =
                    BoundsWith(boundsHeap[query.bounds], ret'.args[1])
       /\ last' = "count" =>
             /\ query'.fields_where = query.fields_where
             /\ query'.fields_sort = query.fields_sort
             /\ boundsHeap'[query.bounds] = boundsHeap[query.bounds]]_vars

(***************************************************************************)
(* Claims about the positions of the AllIterator.                          *)
(***************************************************************************)
\* C27: it[k], for a k smaller than the number of rows a traversal yields,
\* is the row a traversal yields in position k (counted from 0), whichever
\* chunk is loaded.
C27_IndexIsTraversalPosition ==
    (last = "getitem" /\ item.k < Len(Expected)) =>
        /\ item.outcome = "row"
        /\ item.value = Expected[item.k + 1]

(***************************************************************************)
(* SpecBetween: a query and the where-criteria put on it, between_field    *)
(* among them.                                                             *)
(***************************************************************************)
BetweenVals == 0..3

\* query.between_field(n, low, high)
Between ==
    \E n \in FieldNames, low \in BetweenVals, high \in BetweenVals :
        /\ CanBuild("query")
        /\ SetTarget("query", between_field(query, n, low, high), "none",
                     "between_field", <<n, low, high>>)
        /\ UNCHANGED boundsHeap

NextBetween == Between \/ WhereField

SpecBetween == InitBuilder /\ [][NextBetween]_vars

\* the value v passes the comparison criterion c
Passes(c, v) ==
    CASE c.verb = "lte" -> v <= c.val
      [] c.verb = "lt"  -> v < c.val
      [] c.verb = "gte" -> v >= c.val
      [] c.verb = "gt"  -> v > c.val
      [] c.verb = "is"  -> v = c.val
      [] c.verb = "not" -> v # c.val
      [] OTHER -> TRUE

\* the criteria an operation appended to the where-criteria of the query
Appended == SubSeq(query'.fields_where, Len(query.fields_where) + 1,
                   Len(query'.fields_where))

\* C28: between_field(n, low, high) appends two criteria to the criteria the
\* query had, a gte criterion with low and an lte criterion with high, and
\* the values that pass both are those from low to high.
C28_Between ==
    [][last' = "between_field" =>
          /\ Len(query'.fields_where) = Len(query.fields_where) + 2
          /\ SubSeq(query'.fields_where, 1, Len(query.fields_where)) =
                 query.fields_where
          /\ {[verb |-> Appended[i].verb, val |-> Appended[i].val] : i \in 1..2} =
                 {[verb |-> "gte", val |-> ret'.args[2]],
                  [verb |-> "lte", val |-> ret'.args[3]]}
          /\ \A v \in BetweenVals :
                 (Passes(Appended[1], v) /\ Passes(Appended[2], v)) <=>
                     (ret'.args[2] <= v /\ v <= ret'.args[3])]_vars

(***************************************************************************)
(* SpecNested: two generators of one AllIterator, the second made while    *)
(* the first is part of the way through, their next() calls interleaved.   *)
(* Both run AllIterator.__iter__ over the one offset, the one loaded chunk *)
(* and the one lazy sequence of each chunk.                                *)
(***************************************************************************)
\* iter(it) while the first generator is suspended at a yield
IterStart2 ==
    /\ it.made
    /\ gen.pc = "yield"
    /\ gen2.pc = "none"
    /\ gen2' = [NoGenerator EXCEPT !.pc = "start", !.has_more = TRUE, !.trav = 1]
    /\ made' = <<>>
    /\ last' = "iter2"
    /\ UNCHANGED <<table, boundsHeap, query, it, chunks, gen, item, ri, out, queryVars,
                   cacheVars>>

GenNext2Done(s) == SetWorld(s.w) /\ gen2' = s.g

\* next(second generator)
GenNext2 ==
    /\ gen2.pc \in {"start", "yield"}
    /\ GenNext2Done(IF gen2.pc = "start" THEN iter_first(table, World, gen2)
                    ELSE advance(table, World, gen2))
    /\ last' = "next2"
    /\ UNCHANGED <<table, query, gen, item, ri, out, queryVars, cacheVars>>

NextNested == QueryAll \/ IterStart \/ GenNext \/ IterStart2 \/ GenNext2

SpecNested == InitAll /\ [][NextNested]_vars

\* C29: once a second generator was made during the first one's traversal,
\* each of the two has yielded a prefix of the rows from the start offset
\* on, and all of them when it has ended.
C29_NestedTraversals ==
    (gen2.pc # "none" /\ gen.trav = 1) =>
        /\ IsPrefix(gen.yielded, Expected)
        /\ IsPrefix(gen2.yielded, Expected)
        /\ gen.pc = "done" => gen.yielded = Expected
        /\ gen2.pc = "done" => gen2.yielded = Expected

====
